---- MODULE Spec2Model ----
(***************************************************************************)
(* FullyConnectedOracle (design_bench/oracles/tensorflow/                  *)
(* fully_connected_oracle.py): fit, save_model_to_zip,                     *)
(* load_model_from_zip and protected_predict of one oracle instance.       *)
(*                                                                         *)
(* Bytes are small naturals, byte strings are sequences.  A keras model    *)
(* object is the record of what keras.Model holds after compile and fit:   *)
(* its input shape, its layers, its trained weights and its optimizer      *)
(* (the schedule's decay_steps and the optimizer's step counter).  The     *)
(* python heap is the sequence heap; a model is referred to by its index.  *)
(* Each method call is one action; call records the last call made and     *)
(* how it ended.                                                           *)
(***************************************************************************)
EXTENDS Integers, Sequences, FiniteSets, TLC

\* ---------------------------------------------------------------- bounds
MaxSize == 3        \* training.dataset_size ranges over 1..MaxSize
MaxBatch == 2       \* internal_batch_size ranges over 1..MaxBatch
MaxEpochs == 2      \* epochs ranges over 1..MaxEpochs
MaxLayers == 1      \* num_layers ranges over 0..MaxLayers
MaxObjects == 2     \* model objects allocated in one behaviour
MaxBatchLen == 2    \* designs in one predict batch
MaxEntries == 2     \* entries one archive may hold

\* fit's default hidden_size
hidden_size == 512

VARIABLES
    training,             \* what dataset.split returns as the training split
    internal_batch_size,  \* self.internal_batch_size
    num_layers,           \* fit's num_layers, as the oracle's owner passes it
    epochs,               \* fit's epochs, as the oracle's owner passes it
    model,                \* self.model: NoModel, or a dict
    heap,                 \* the keras model objects, by reference
    zip_archive,          \* the entries of the ZipFile, in the order written
    tempfiles,            \* the temporary files that exist on disk
    call                  \* the last call: its method, inputs and outcome

config == <<training, internal_batch_size, num_layers, epochs>>
vars == <<training, internal_batch_size, num_layers, epochs,
          model, heap, zip_archive, tempfiles, call>>

NoModel == <<>>
NoError == "none"

\* the values spearmanr may return
Correlations == {-1, 1}
\* the weights training may end with
Weights == {1, 2}
Designs == {1, 2}
\* the buffer of a temporary file, in bytes: one smaller than every h5 file
\* written here, one larger than the h5 files of the networks without hidden
\* blocks
BufferSizes == {8, 32}

\* training.input_shape, training.num_classes
InputShapes == {<<2>>, <<2, 3>>}
NumClasses == {3}

\* The training splits: continuous, discrete with integer inputs, discrete
\* with logit inputs.
Trainings ==
    [discrete : {FALSE}, is_logits : {FALSE}, input_shape : InputShapes,
     num_classes : {0}, dataset_size : 1..MaxSize]
    \cup
    [discrete : {TRUE}, is_logits : BOOLEAN, input_shape : InputShapes,
     num_classes : NumClasses, dataset_size : 1..MaxSize]

\* -------------------------------------------------------------------- fit

\* a variant that drops the last axis of every discrete dataset
FitInputShapeAnyDiscrete(t) ==
    IF t.discrete
    THEN SubSeq(t.input_shape, 1, Len(t.input_shape) - 1)
    ELSE t.input_shape

\* training.input_shape, with the logit axis dropped
FitInputShape(t) ==
    IF t.discrete /\ t.is_logits
    THEN SubSeq(t.input_shape, 1, Len(t.input_shape) - 1)
    ELSE t.input_shape

Layer(kind, units, input_dim) ==
    [kind |-> kind, units |-> units, input_dim |-> input_dim]

\* for i in range(num_layers): Dense, LayerNormalization, Activation
RECURSIVE DenseBlocks(_, _)
DenseBlocks(n, hs) ==
    IF n <= 0 THEN <<>>
    ELSE <<Layer("Dense", hs, 0), Layer("LayerNormalization", 0, 0),
           Layer("Activation", 0, 0)>> \o DenseBlocks(n - 1, hs)

\* a variant without the Flatten layer
BuildLayersNoFlatten(t, hs, n) ==
    <<Layer("InputLayer", 0, 0)>>
    \o (IF t.discrete THEN <<Layer("Embedding", hs, t.num_classes)>> ELSE <<>>)
    \o DenseBlocks(n, hs)
    \o <<Layer("Dense", 1, 0)>>

\* the layers of keras.Model(inputs=input_layer, outputs=output_layer)
BuildLayers(t, hs, n) ==
    <<Layer("InputLayer", 0, 0)>>
    \o (IF t.discrete THEN <<Layer("Embedding", hs, t.num_classes)>> ELSE <<>>)
    \o <<Layer("Flatten", 0, 0)>>
    \o DenseBlocks(n, hs)
    \o <<Layer("Dense", 1, 0)>>

\* a variant that rounds down
StepsPerEpochFloor(size, bs) == size \div bs

\* int(math.ceil(training.dataset_size / self.internal_batch_size))
StepsPerEpoch(size, bs) ==
    IF size % bs = 0 THEN size \div bs ELSE (size \div bs) + 1

\* CosineDecay(learning_rate, steps * epochs, alpha=0.0): decay_steps
DecaySteps(steps, ep) == steps * ep

\* model.fit(..., steps_per_epoch=steps, epochs=epochs): the optimizer steps
\* taken, steps in each epoch
RECURSIVE TrainIterations(_, _)
TrainIterations(steps, ep) ==
    IF ep <= 0 THEN 0 ELSE steps + TrainIterations(steps, ep - 1)

\* a variant that retrains the stored model's object in place
PatchStoredModel(self_model, h, obj) ==
    IF self_model # NoModel
    THEN [heap |-> [h EXCEPT ![self_model.model] = obj], id |-> self_model.model]
    ELSE [heap |-> Append(h, obj), id |-> Len(h) + 1]

\* model = keras.Model(...): a new object; fit does not look at self.model
NewModel(self_model, h, obj) ==
    [heap |-> Append(h, obj), id |-> Len(h) + 1]

FitFailures == {"split", "transform", "build", "train", "correlation"}

\* a variant that returns the model alone when the correlation fails
FitKeepsModelOnly(self_model, h, t, bs, n, ep, fail, w, r) ==
    IF fail \in FitFailures \ {"correlation"}
    THEN [status |-> "raised", error |-> fail, value |-> <<>>, heap |-> h]
    ELSE
      LET steps == StepsPerEpoch(t.dataset_size, bs)
          obj == [input_shape |-> FitInputShape(t),
                  layers |-> BuildLayers(t, hidden_size, n),
                  weights |-> w,
                  decay_steps |-> DecaySteps(steps, ep),
                  iterations |-> TrainIterations(steps, ep)]
          new == NewModel(self_model, h, obj)
      IN  [status |-> "returned", error |-> NoError, heap |-> new.heap,
           value |-> IF fail = "correlation"
                     THEN [model |-> new.id]
                     ELSE [model |-> new.id, rank_correlation |-> r]]

\* fit(self, dataset, hidden_size, activation, num_layers, epochs, ...): fail
\* is the statement that raises (NoError: none), w the weights training ends
\* with, r the value spearmanr returns
fit(self_model, h, t, bs, n, ep, fail, w, r) ==
    IF fail \in FitFailures
    THEN [status |-> "raised", error |-> fail, value |-> <<>>, heap |-> h]
    ELSE
      LET steps == StepsPerEpoch(t.dataset_size, bs)
          obj == [input_shape |-> FitInputShape(t),
                  layers |-> BuildLayers(t, hidden_size, n),
                  weights |-> w,
                  decay_steps |-> DecaySteps(steps, ep),
                  iterations |-> TrainIterations(steps, ep)]
          new == NewModel(self_model, h, obj)
      IN  [status |-> "returned", error |-> NoError, heap |-> new.heap,
           value |-> [model |-> new.id, rank_correlation |-> r]]

Fit ==
    /\ Len(heap) < MaxObjects
    /\ \E fail \in FitFailures \cup {NoError} :
       \E w \in IF fail \in {"correlation", NoError} THEN Weights ELSE {0},
          r \in IF fail = NoError THEN Correlations ELSE {0} :
         LET res == fit(model, heap, training, internal_batch_size,
                        num_layers, epochs, fail, w, r)
         IN  /\ heap' = res.heap
             /\ call' = [op |-> "fit", status |-> res.status,
                         error |-> res.error, value |-> res.value, x |-> <<>>]
    /\ UNCHANGED <<config, model, zip_archive, tempfiles>>

RECURSIVE Product(_)
Product(dims) == IF dims = <<>> THEN 1 ELSE Head(dims) * Product(Tail(dims))

\* the shape one layer gives a tensor of the given shape (batch axis first)
LayerOutputShape(layer, shape) ==
    CASE layer.kind = "Embedding" -> shape \o <<layer.units>>
      [] layer.kind = "Flatten" -> <<Head(shape), Product(Tail(shape))>>
      [] layer.kind = "Dense" -> SubSeq(shape, 1, Len(shape) - 1) \o <<layer.units>>
      [] OTHER -> shape

\* the shape of model.predict(x) for x of shape (batch,) + input_shape
RECURSIVE OutputShape(_, _)
OutputShape(layers, shape) ==
    IF layers = <<>> THEN shape
    ELSE OutputShape(Tail(layers), LayerOutputShape(Head(layers), shape))

\* ------------------------------------------------------------ persistence

H5Magic == 137
PickleProto == 128

LayerKinds == <<"InputLayer", "Embedding", "Flatten", "Dense",
                "LayerNormalization", "Activation">>

KindCode(kind) == CHOOSE i \in 1..Len(LayerKinds) : LayerKinds[i] = kind

RECURSIVE EncodeLayers(_)
EncodeLayers(ls) ==
    IF ls = <<>> THEN <<>>
    ELSE <<KindCode(Head(ls).kind), Head(ls).units, Head(ls).input_dim>>
         \o EncodeLayers(Tail(ls))

RECURSIVE DecodeLayers(_)
DecodeLayers(b) ==
    IF Len(b) < 3 THEN <<>>
    ELSE <<Layer(LayerKinds[b[1]], b[2], b[3])>>
         \o DecodeLayers(SubSeq(b, 4, Len(b)))

\* model.save(path, save_format='h5'): the bytes of the file it writes, the
\* architecture, the weights and the optimizer
H5Bytes(obj) ==
    <<H5Magic, Len(obj.input_shape)>> \o obj.input_shape
    \o <<Len(obj.layers)>> \o EncodeLayers(obj.layers)
    \o <<obj.weights, obj.decay_steps, obj.iterations>>

H5WellFormed(b) ==
    /\ Len(b) >= 3
    /\ b[1] = H5Magic
    /\ Len(b) >= 3 + b[2]
    /\ Len(b) = 3 + b[2] + 3 * b[3 + b[2]] + 3
    /\ \A i \in 1..b[3 + b[2]] : b[3 + b[2] + 3 * (i - 1) + 1] \in 1..Len(LayerKinds)

\* keras.models.load_model(path) on a file holding b: <<the model>>, or <<>>
\* when it raises (b is no complete h5 file)
H5Load(b) ==
    IF ~H5WellFormed(b) THEN <<>>
    ELSE LET ns == b[2]
             nl == b[3 + ns]
             rest == 3 + ns + 3 * nl
         IN  <<[input_shape |-> SubSeq(b, 3, 2 + ns),
                layers |-> DecodeLayers(SubSeq(b, 4 + ns, rest)),
                weights |-> b[rest + 1],
                decay_steps |-> b[rest + 2],
                iterations |-> b[rest + 3]]>>

\* rank_correlation.dumps(): the pickle of the scalar
Dumps(r) == <<PickleProto, r + 1>>

\* np.loads(bytes): <<the scalar>>, or <<>> when unpickling raises
Loads(b) ==
    IF Len(b) = 2 /\ b[1] = PickleProto THEN <<b[2] - 1>> ELSE <<>>

\* a variant that writes the model under the correlation's name
H5EntryAsCorrelationEntry == "rank_correlation.npy"

H5Entry == "fully_connected.h5"
CorrelationEntry == "rank_correlation.npy"

\* with zip_archive.open(name, "w") as file: file.write(data)
ZipWrite(archive, name, data) == Append(archive, [name |-> name, data |-> data])

ZipHas(archive, name) == \E i \in 1..Len(archive) : archive[i].name = name

\* zip_archive.open(name, "r").read(): the entry written last under name
ZipRead(archive, name) ==
    LET last == CHOOSE i \in 1..Len(archive) :
                    /\ archive[i].name = name
                    /\ \A j \in (i + 1)..Len(archive) : archive[j].name # name
    IN  archive[last].data

\* tempfile.NamedTemporaryFile(): a file under a name not in use
NewTemp(files) == CHOOSE f \in 1..(Cardinality(files) + 1) : f \notin files

\* a variant that deletes the file only when the block returns
TempExitKeepsOnError(files, f, raised) ==
    IF raised THEN files ELSE files \ {f}

\* the end of `with tempfile.NamedTemporaryFile() as file`, by return or by an
\* exception (raised): the file is closed and deleted
TempExit(files, f, raised) == files \ {f}

\* file.write(data) on a temporary file whose buffer holds buffer_size bytes,
\* then the file as a reader of file.name sees it, nothing having flushed
\* the buffer: data that fits the buffer is still in it
BufferedWrite(data, buffer_size) ==
    IF Len(data) > buffer_size THEN data ELSE <<>>

SaveFailures == {"save", "open_h5", "open_correlation", "dumps"}

\* save_model_to_zip(self, model, zip_archive): m is the dict, fail the
\* statement that raises
save_model_to_zip(m, h, archive, files, fail) ==
    LET file == NewTemp(files)
        saved == fail # "save"
        model_bytes == H5Bytes(h[m.model])
        closed == TempExit(files \cup {file}, file, ~saved)
        with_h5 == ZipWrite(archive, H5Entry, model_bytes)
        dumped == fail # "dumps" /\ "rank_correlation" \in DOMAIN m
    IN  IF ~saved
        THEN [status |-> "raised", error |-> "save",
              archive |-> archive, files |-> closed]
        ELSE IF fail = "open_h5"
        THEN [status |-> "raised", error |-> fail,
              archive |-> archive, files |-> closed]
        ELSE IF fail = "open_correlation"
        THEN [status |-> "raised", error |-> fail,
              archive |-> with_h5, files |-> closed]
        ELSE IF ~dumped
        THEN [status |-> "raised", error |-> "dumps",
              archive |-> ZipWrite(with_h5, CorrelationEntry, <<>>),
              files |-> closed]
        ELSE [status |-> "returned", error |-> NoError,
              archive |-> ZipWrite(with_h5, CorrelationEntry,
                                   Dumps(m.rank_correlation)),
              files |-> closed]

\* load_model_from_zip(self, zip_archive)
load_model_from_zip(h, archive, files, buffer_size) ==
    IF ~ZipHas(archive, CorrelationEntry)
    THEN [status |-> "raised", error |-> "open_correlation", value |-> <<>>,
          heap |-> h, files |-> files]
    ELSE IF Loads(ZipRead(archive, CorrelationEntry)) = <<>>
    THEN [status |-> "raised", error |-> "loads", value |-> <<>>,
          heap |-> h, files |-> files]
    ELSE IF ~ZipHas(archive, H5Entry)
    THEN [status |-> "raised", error |-> "open_h5", value |-> <<>>,
          heap |-> h, files |-> files]
    ELSE
      LET rank_correlation == Loads(ZipRead(archive, CorrelationEntry))[1]
          model_bytes == ZipRead(archive, H5Entry)
          file == NewTemp(files)
          loaded == H5Load(BufferedWrite(model_bytes, buffer_size))
          closed == TempExit(files \cup {file}, file, loaded = <<>>)
      IN  IF loaded = <<>>
          THEN [status |-> "raised", error |-> "load_model", value |-> <<>>,
                heap |-> h, files |-> closed]
          ELSE [status |-> "returned", error |-> NoError,
                value |-> [model |-> Len(h) + 1,
                           rank_correlation |-> rank_correlation],
                heap |-> Append(h, loaded[1]), files |-> closed]

\* The dicts a caller holds: self.model, and what the last fit or load returned.
Dicts ==
    (IF model # NoModel THEN {model} ELSE {})
    \cup (IF call.op \in {"fit", "load"} /\ call.status = "returned"
          THEN {call.value} ELSE {})

Save ==
    /\ Len(zip_archive) + 2 <= MaxEntries
    /\ \E m \in Dicts, fail \in SaveFailures \cup {NoError} :
         LET res == save_model_to_zip(m, heap, zip_archive, tempfiles, fail)
         IN  /\ zip_archive' = res.archive
             /\ tempfiles' = res.files
             /\ call' = [op |-> "save", status |-> res.status,
                         error |-> res.error, value |-> <<>>, x |-> m]
    /\ UNCHANGED <<config, model, heap>>

Load ==
    /\ Len(heap) < MaxObjects
    /\ \E buffer_size \in BufferSizes :
         LET res == load_model_from_zip(heap, zip_archive, tempfiles, buffer_size)
         IN  /\ heap' = res.heap
             /\ tempfiles' = res.files
             /\ call' = [op |-> "load", status |-> res.status,
                         error |-> res.error, value |-> res.value, x |-> <<>>]
    /\ UNCHANGED <<config, model, zip_archive>>

\* ------------------------------------------------------------- prediction

\* model.predict on one design: a function of the architecture, the weights
\* and the design
Forward(obj, d) == obj.weights * d + Len(obj.layers)

Batches == UNION {[1..n -> Designs] : n \in 0..MaxBatchLen}

\* a variant that predicts zeros when there is no model
protected_predict_default(self_model, h, x) ==
    IF self_model = NoModel
    THEN [status |-> "returned", error |-> NoError,
          value |-> [i \in 1..Len(x) |-> <<0>>]]
    ELSE [status |-> "returned", error |-> NoError,
          value |-> [i \in 1..Len(x) |-> <<Forward(h[self_model.model], x[i])>>]]

\* protected_predict(self, x): self.model["model"].predict(x), of shape
\* (len(x), 1)
protected_predict(self_model, h, x) ==
    IF self_model = NoModel
    THEN [status |-> "raised", error |-> "no_model", value |-> <<>>]
    ELSE [status |-> "returned", error |-> NoError,
          value |-> [i \in 1..Len(x) |-> <<Forward(h[self_model.model], x[i])>>]]

\* a variant whose predict advances the stored model's optimizer
PredictRetrains ==
    /\ \E x \in Batches :
         LET res == protected_predict(model, heap, x)
         IN  /\ call' = [op |-> "predict", status |-> res.status,
                         error |-> res.error, value |-> res.value, x |-> x]
             /\ heap' = IF model = NoModel THEN heap
                        ELSE [heap EXCEPT ![model.model].iterations = @ + Len(x)]
    /\ UNCHANGED <<config, model, zip_archive, tempfiles>>

Predict ==
    /\ \E x \in Batches :
         LET res == protected_predict(model, heap, x)
         IN  call' = [op |-> "predict", status |-> res.status,
                      error |-> res.error, value |-> res.value, x |-> x]
    /\ UNCHANGED <<config, model, heap, zip_archive, tempfiles>>

\* ------------------------------------------------- the owner of the oracle

\* self.model = self.fit(...), self.model = self.load_model_from_zip(...)
SetModel ==
    /\ call.op \in {"fit", "load"}
    /\ call.status = "returned"
    /\ model' = call.value
    /\ UNCHANGED <<config, heap, zip_archive, tempfiles, call>>

\* a new, empty archive is opened for writing
OpenArchive ==
    /\ zip_archive # <<>>
    /\ zip_archive' = <<>>
    /\ UNCHANGED <<config, model, heap, tempfiles, call>>

\* ---------------------------------------------------------- specification

InitFit ==
    /\ training \in Trainings
    /\ internal_batch_size \in 1..MaxBatch
    /\ num_layers \in 0..MaxLayers
    /\ epochs \in 1..MaxEpochs
    /\ model = NoModel
    /\ heap = <<>>
    /\ zip_archive = <<>>
    /\ tempfiles = {}
    /\ call = [op |-> "none", status |-> "returned", error |-> NoError,
               value |-> <<>>, x |-> <<>>]

NextFit == Fit

SpecFit == InitFit /\ [][NextFit]_vars

\* One continuous and one discrete, logit-encoded oracle, with and without
\* hidden blocks.
Init ==
    /\ InitFit
    /\ training.input_shape = <<2, 3>>
    /\ training.discrete = training.is_logits
    /\ training.dataset_size = MaxSize
    /\ internal_batch_size = MaxBatch
    /\ epochs = MaxEpochs
    /\ num_layers \in {0, MaxLayers}

Next == Fit \/ SetModel \/ Save \/ Load \/ Predict \/ OpenArchive

Spec == Init /\ [][Next]_vars

\* ------------------------------------------------------------- properties

FitReturned == call.op = "fit" /\ call.status = "returned"
DictFields == {"model", "rank_correlation"}

\* C1: a predict call made while self.model is absent ends in an error and
\* returns no prediction; predict returns predictions only when a stored
\* model is present.
C1_PredictNeedsModel ==
    call.op = "predict" =>
        /\ model = NoModel => (call.status = "raised" /\ call.value = <<>>)
        /\ call.status = "returned" =>
               (model # NoModel /\ model.model \in 1..Len(heap))

C1_Witness ==
    /\ call.op = "predict"
    /\ call.x # <<>>
    /\ model = NoModel
    /\ call.status = "raised"

\* C2: load_model_from_zip on the archive that save_model_to_zip wrote for
\* (model, rank_correlation) returns a dict whose model is rebuilt from all
\* the bytes save wrote to fully_connected.h5 and whose rank_correlation is
\* the value saved.
C2_RoundTrip ==
    \A id \in 1..Len(heap), r \in Correlations :
        ( /\ call.op = "load"
          /\ zip_archive = <<[name |-> "fully_connected.h5",
                              data |-> H5Bytes(heap[id])],
                             [name |-> "rank_correlation.npy",
                              data |-> Dumps(r)]>> )
        => /\ call.status = "returned"
           /\ heap[call.value.model] = heap[id]
           /\ call.value.rank_correlation = r

\* What load does return is the model and the correlation that were saved.
RoundTripWhenLoaded ==
    \A id \in 1..Len(heap), r \in Correlations :
        ( /\ call.op = "load"
          /\ call.status = "returned"
          /\ zip_archive = <<[name |-> "fully_connected.h5",
                              data |-> H5Bytes(heap[id])],
                             [name |-> "rank_correlation.npy",
                              data |-> Dumps(r)]>> )
        => /\ heap[call.value.model] = heap[id]
           /\ call.value.rank_correlation = r

\* C3: once a save or load call has ended, by return or by an exception
\* raised inside or after the temporary file's scope, no temporary file is
\* left on disk.
C3_NoTempFileLeft == tempfiles = {}

C3_Witness ==
    /\ call.op = "load"
    /\ call.status = "raised"
    /\ call.error = "load_model"
    /\ tempfiles = {}

\* C4: predict leaves self.model and the model objects as they were, and its
\* result holds one prediction of the stored model per input design, in the
\* input order.
C4_PredictPure ==
    /\ [](call.op = "predict" /\ call.status = "returned" =>
            /\ Len(call.value) = Len(call.x)
            /\ \A i \in 1..Len(call.x) :
                 call.value[i] = <<Forward(heap[model.model], call.x[i])>>)
    /\ [][call'.op = "predict" => (model' = model /\ heap' = heap)]_vars

C4_Witness ==
    /\ call.op = "predict"
    /\ call.status = "returned"
    /\ Len(call.x) = MaxBatchLen
    /\ call.x[1] # call.x[2]

\* C5: fit either raises and returns nothing, or returns a dict holding both
\* a model and a rank correlation.
C5_FitAllOrNothing ==
    call.op = "fit" =>
        \/ call.status = "raised" /\ call.value = <<>>
        \/ /\ call.status = "returned"
           /\ DOMAIN call.value = DictFields
           /\ call.value.model \in 1..Len(heap)
           /\ call.value.rank_correlation \in Correlations

C5_Witness ==
    /\ call.op = "fit"
    /\ call.status = "raised"
    /\ call.error = "correlation"

\* C6: a save that returns, made on an empty archive, leaves exactly two
\* entries: fully_connected.h5 with the model's h5 bytes, then
\* rank_correlation.npy with the pickled correlation.
C6_TwoEntries ==
    [][(zip_archive = <<>> /\ zip_archive' # <<>> /\ call'.status = "returned")
         => /\ call'.op = "save"
            /\ Len(zip_archive') = 2
            /\ zip_archive'[1] = [name |-> "fully_connected.h5",
                                  data |-> H5Bytes(heap[call'.x.model])]
            /\ zip_archive'[2] = [name |-> "rank_correlation.npy",
                                  data |-> Dumps(call'.x.rank_correlation)]]_vars

C6_Witness ==
    /\ call.op = "save"
    /\ call.status = "returned"
    /\ Len(zip_archive) = 2
    /\ zip_archive[1].name # zip_archive[2].name

\* C7: the input shape of the model fit builds is training.input_shape
\* without its last dimension when training is discrete and logit-encoded,
\* and training.input_shape itself otherwise.
C7_InputShape ==
    FitReturned =>
        LET shape == heap[call.value.model].input_shape
            declared == training.input_shape
        IN  IF training.discrete /\ training.is_logits
            THEN /\ Len(shape) = Len(declared) - 1
                 /\ \A i \in 1..Len(shape) : shape[i] = declared[i]
            ELSE shape = declared

C7_Witness ==
    /\ FitReturned
    /\ training.discrete
    /\ training.is_logits
    /\ Len(training.input_shape) = 2
    /\ Len(heap[call.value.model].input_shape) = 1

\* C8: the model fit builds is: input; an embedding iff training is discrete;
\* one flatten; num_layers blocks of dense, normalization, activation; one
\* dense layer of one unit; and its predictions have shape (batch, 1).
C8_Architecture ==
    FitReturned =>
        LET obj == heap[call.value.model]
            ls == obj.layers
            e == IF training.discrete THEN 1 ELSE 0
        IN  /\ Len(ls) = 3 + e + 3 * num_layers
            /\ ls[1].kind = "InputLayer"
            /\ training.discrete <=> (\E i \in 1..Len(ls) : ls[i].kind = "Embedding")
            /\ training.discrete => ls[2].kind = "Embedding"
            /\ ls[2 + e].kind = "Flatten"
            /\ Cardinality({i \in 1..Len(ls) : ls[i].kind = "Flatten"}) = 1
            /\ \A k \in 0..(num_layers - 1) :
                 /\ ls[2 + e + 3 * k + 1].kind = "Dense"
                 /\ ls[2 + e + 3 * k + 2].kind = "LayerNormalization"
                 /\ ls[2 + e + 3 * k + 3].kind = "Activation"
            /\ ls[Len(ls)].kind = "Dense"
            /\ ls[Len(ls)].units = 1
            /\ \A batch \in 1..MaxBatchLen :
                 OutputShape(ls, <<batch>> \o obj.input_shape) = <<batch, 1>>

C8_Witness ==
    /\ FitReturned
    /\ training.discrete
    /\ num_layers = MaxLayers
    /\ Len(heap[call.value.model].layers) = 4 + 3 * MaxLayers

C10_FitBuildsFresh ==
    [][ /\ \A i \in 1..Len(heap) : i <= Len(heap') /\ heap'[i] = heap[i]
        /\ (call'.op = "fit" /\ call'.status = "returned" /\ heap' # heap)
             => (call'.value.model \notin 1..Len(heap) /\ model' = model)
        /\ model' # model
             => (model' = call.value /\ DOMAIN model' = DictFields) ]_vars

C10_Witness ==
    /\ model # NoModel
    /\ FitReturned
    /\ call.value.model > model.model

====
